---------------------------- MODULE Spec2Model ----------------------------
(***************************************************************************)
(* A model of the poultry monitoring programs:                             *)
(*   - ml_model/main.py: the Streamlit monitoring page (session state,     *)
(*     the monitoring cycle, detect_anomalies, the settings tab);          *)
(*   - ml_model/dashboard/app.py: the dashboard with its background        *)
(*     producer thread (start_streaming / stop_streaming / stream_data /   *)
(*     update_history) and the explanation panel;                          *)
(*   - ml_model/explain/shap_explain.py: the explainer's feature           *)
(*     preparation and explain_prediction;                                 *)
(*   - ml_model/forecast/forecast_date.py: predict_future's input shape.   *)
(*                                                                         *)
(* Units.  Sensor values are integers; pH is in tenths (70 = 7.0).         *)
(* Outlier scores are in hundredths (-45 = -0.45).  A stored threshold is  *)
(* kept multiplied by 100 again (value100) so that the interpolation of    *)
(* numpy.percentile stays exact in integer arithmetic.                     *)
(*                                                                         *)
(* Library behaviour the source relies on and the model states:            *)
(*   - st.rerun() raises a script-control exception that derives from      *)
(*     BaseException, so `except Exception` does not catch it: the script  *)
(*     run ends there and the next run starts from the top;                *)
(*   - st.session_state is one dictionary shared by the script runs and    *)
(*     by the threads the script starts (as the source assumes);           *)
(*   - IsolationForest.score_samples on an unfitted estimator raises       *)
(*     NotFittedError;                                                     *)
(*   - dividing Python floats by zero raises ZeroDivisionError, dividing   *)
(*     pandas Series by zero yields inf (or nan for 0/0) without raising;  *)
(*   - StandardScaler.transform raises ValueError on inf, and otherwise    *)
(*     returns (x - mean_) / scale_ column by column;                      *)
(*   - pandas' Series.std() is the sample standard deviation (ddof=1);     *)
(*   - numpy.percentile interpolates linearly; numpy.argmax returns the    *)
(*     first index of a largest entry;                                     *)
(*   - numpy's reshape(1, 24, -1) raises unless the number of elements is  *)
(*     a positive multiple of 24, and a Keras model raises on an input     *)
(*     whose last dimension is not the one it was built for.               *)
(***************************************************************************)
EXTENDS Integers, Sequences, FiniteSets, TLC

(***************************************************************************)
(* Bounds of the model (not program constants).                            *)
(***************************************************************************)
\* Monitoring cycles of main.py explored in one session.
MaxCycles == 21
\* Readings of one session whose random pH draws are not the default draw.
MaxNoisy == 1

(***************************************************************************)
(* Program constants.                                                      *)
(***************************************************************************)
\* main.py:85 and :313, `len(data) < 10` / `len(...) >= 10`.
MinWindow == 10
\* main.py:316, `len(st.session_state.historical_data) % 10 == 0`.
RetrainEvery == 10
\* main.py:81, np.percentile(scores, 10).
ThresholdPercentile == 10
\* main.py:73, contamination=0.1, in percent.
DefaultContamination == 10
\* main.py:75, n_estimators=100.
DefaultEstimators == 100

None == "None"
Absent == "absent"

Range(s) == {s[i] : i \in 1..Len(s)}

Abs(x) == IF x < 0 THEN -x ELSE x

\* s[1] + ... + s[n]
RECURSIVE SumTo(_, _)
SumTo(s, n) == IF n = 0 THEN 0 ELSE s[n] + SumTo(s, n - 1)

RECURSIVE GCD(_, _)
GCD(a, b) == IF b = 0 THEN a ELSE GCD(b, a % b)

(***************************************************************************)
(* State of main.py's session.                                             *)
(***************************************************************************)
VARIABLES
    df,                \* the cached dataset (load_dataset)
    feature_config,    \* the loaded feature configuration, or None
    models_loaded,     \* load_models(): model and scaler, or (None, None)
    historical_data,   \* st.session_state.historical_data
    anomaly_detector,  \* st.session_state.anomaly_detector
    anomaly_threshold, \* st.session_state.anomaly_threshold (set on first fit)
    monitoring_active, \* st.session_state.monitoring_active
    system_status,     \* st.session_state.system_status
    current_metrics,   \* st.session_state.current_metrics
    current_status,    \* st.session_state.current_status
    current_anomaly,   \* st.session_state.current_anomaly
    last_error,        \* the st.error message of the last cycle, by stage
    clock,             \* datetime.now(), counted in monitoring cycles
    generation         \* number of fits of the anomaly detector so far

mainVars == <<df, feature_config, models_loaded, historical_data,
              anomaly_detector, anomaly_threshold, monitoring_active,
              system_status, current_metrics, current_status,
              current_anomaly, last_error, clock, generation>>

(***************************************************************************)
(* State of dashboard/app.py's session and of the threads it starts.       *)
(***************************************************************************)
VARIABLES
    artifacts_present, \* the files under model/ exist and load
    history,           \* st.session_state.history (the rows of the frame)
    last_update,       \* st.session_state.last_update
    stop_streaming,    \* st.session_state.stop_streaming: "absent", "False", "True"
    streaming_thread,  \* st.session_state.streaming_thread: a thread, or 0 (no key)
    thread_pc,         \* where each thread is in stream_data
    thread_row,        \* update_history's new_row, between its read and its write
    thread_snapshot,   \* the history update_history read for pd.concat
    stop_requested,    \* threads that were the streaming thread in a stop_streaming call
    ui_pc,             \* where the script run is in main()
    explanation,       \* the Analysis panel of the last run: "none", "shown", "skipped"
    dash_clock         \* datetime.now(), counted in generated readings

dashVars == <<artifacts_present, history, last_update, stop_streaming,
              streaming_thread, thread_pc, thread_row, thread_snapshot,
              stop_requested, ui_pc, explanation, dash_clock>>

(***************************************************************************)
(* The feature-engineering functions applied to one reading.               *)
(***************************************************************************)
VARIABLES
    eng_reading,       \* the reading handed to the three engineering paths
    eng_result,        \* what each path returned for it, once applied
    eng_explained      \* what explain_prediction returned for it, once called

engVars == <<eng_reading, eng_result, eng_explained>>

(***************************************************************************)
(* detect_anomalies and predict_future called on windows of readings.      *)
(***************************************************************************)
VARIABLES
    fn_data,           \* the window handed to the functions
    fn_calls,          \* calls of detect_anomalies made so far
    fn_detector,       \* st.session_state.anomaly_detector of these calls
    fn_threshold,      \* st.session_state.anomaly_threshold of these calls
    fn_generation,     \* fits of the detector in these calls
    fn_result,         \* what the last call of detect_anomalies returned
    fc_forecast        \* what predict_future did with the window, once called

fnVars == <<fn_data, fn_calls, fn_detector, fn_threshold, fn_generation,
            fn_result, fc_forecast>>

vars == <<mainVars, dashVars, engVars, fnVars>>

(***************************************************************************)
(* main.py                                                                 *)
(***************************************************************************)

\* train_severity_model.py save_models: the feature configuration record.
SavedFeatureConfig ==
    [loaded |-> TRUE,
     feature_names |-> <<"temperature_C", "humidity_%", "ammonia_ppm", "ph">>,
     engineered_features |-> <<"temp_humidity_interaction", "ammonia_temp_ratio">>]

\* load_feature_config returned None (the file is missing or unreadable).
NoFeatureConfig == [loaded |-> FALSE, feature_names |-> <<>>, engineered_features |-> <<>>]

\* generate_sample_data: rows drawn uniformly from [20,35] x [40,90] x [5,25].
\* The session's dataset is one of these (cached for the session).
SampleRowA == [temperature_C |-> 30, humidity_pct |-> 60, ammonia_ppm |-> 12]
SampleRowB == [temperature_C |-> 32, humidity_pct |-> 80, ammonia_ppm |-> 20]
DatasetChoices == {<<SampleRowA, SampleRowB>>, <<SampleRowB, SampleRowA>>}

\* The random draws of generate_ph: uniform(0.5,1.0), uniform(0.3,0.7),
\* uniform(0.4,0.8) and normal(0,0.2), in tenths.
DefaultDraw == [u_temp |-> 5, u_hum |-> 3, u_amm |-> 4, noise |-> 0]
HighDraw == [u_temp |-> 10, u_hum |-> 7, u_amm |-> 8, noise |-> 2]
Draws == {DefaultDraw, HighDraw}

generate_ph(row, d) ==
    70 + (IF row.temperature_C > 30 THEN d.u_temp ELSE 0)
       + (IF row.humidity_pct > 70 THEN d.u_hum ELSE 0)
       + (IF row.ammonia_ppm > 15 THEN d.u_amm ELSE 0)
       + d.noise

\* Division as the caller's number type performs it: a reduced fraction, or,
\* for a zero divisor, what the type does (raise, or inf / nan).
Fraction(a, b) ==
    LET g == GCD(Abs(a), Abs(b))
        s == IF b < 0 THEN -1 ELSE 1
    IN  [kind |-> "finite", num |-> (s * a) \div g, den |-> (s * b) \div g]

PandasDivide(a, b) ==
    IF b # 0 THEN Fraction(a, b)
    ELSE IF a = 0 THEN [kind |-> "nan", num |-> 0, den |-> 0]
    ELSE [kind |-> "inf", num |-> (IF a > 0 THEN 1 ELSE -1), den |-> 0]

\* prepare_features of main.py: raises when the configuration is not loaded,
\* otherwise adds the two engineered columns (pandas arithmetic: no error on
\* a zero temperature) and selects the configured columns in order.
prepare_features(config, r) ==
    IF ~config.loaded
    THEN [raised |-> TRUE, columns |-> <<>>, values |-> <<>>]
    ELSE LET interaction == Fraction(r.temperature_C * r.humidity_pct, 100)
             ratio == PandasDivide(r.ammonia_ppm, r.temperature_C)
             frame == [c \in {"temperature_C", "humidity_%", "ammonia_ppm", "ph",
                              "temp_humidity_interaction", "ammonia_temp_ratio"} |->
                          CASE c = "temperature_C" -> Fraction(r.temperature_C, 1)
                            [] c = "humidity_%" -> Fraction(r.humidity_pct, 1)
                            [] c = "ammonia_ppm" -> Fraction(r.ammonia_ppm, 1)
                            [] c = "ph" -> Fraction(r.ph, 10)
                            [] c = "temp_humidity_interaction" -> interaction
                            [] OTHER -> ratio]
             all_features == config.feature_names \o config.engineered_features
         IN  [raised |-> FALSE,
              columns |-> all_features,
              values |-> [i \in 1..Len(all_features) |-> frame[all_features[i]]]]

\* The row the scaler and the classifier were fitted on for a reading
\* (train_severity_model.py preprocess_data and train): the four base features
\* followed by temp_humidity_interaction and ammonia_temp_ratio.
TrainingVector(r) ==
    <<Fraction(r.temperature_C, 1), Fraction(r.humidity_pct, 1),
      Fraction(r.ammonia_ppm, 1), Fraction(r.ph, 10),
      Fraction(r.temperature_C * r.humidity_pct, 100),
      PandasDivide(r.ammonia_ppm, r.temperature_C)>>

\* StandardScaler.transform: rejects inf (ValueError), lets nan through.
ScalerRejects(values) == \E i \in 1..Len(values) : values[i].kind = "inf"

\* mean_ and scale_ of the fitted StandardScaler, one entry per column it was
\* fitted on (train_severity_model.py train: scaler.fit_transform(X_train)).
ScalerMean == <<27, 65, 15, 7, 18, 1>>
ScalerScale == <<4, 14, 6, 2, 5, 3>>

\* scaler.transform(values): (x - mean_) / scale_ in every column; nan stays nan.
StandardScalerTransform(values) ==
    [i \in 1..Len(values) |->
        IF values[i].kind = "finite"
        THEN Fraction(values[i].num - ScalerMean[i] * values[i].den,
                      values[i].den * ScalerScale[i])
        ELSE values[i]]

\* The classifier is handed the feature vector as it is.
ClassifierInputUnscaled(values) == <<values>>

\* The argument the classifier is called with for a feature vector, in a
\* sequence of its own, or <<>> when the transform raised and the classifier
\* was not called: scaled = scaler.transform(pred_data); model.predict(scaled)
\* (main.py 298-299; dashboard/app.py 205-206; shap_explain.py 69-72).
ClassifierInput(values) ==
    IF ScalerRejects(values) THEN <<>> ELSE <<StandardScalerTransform(values)>>

\* The fitted classifier, by the rule its training labels were made with
\* (train_severity_model.py label_severity); pH in tenths.
ClassifierPredict(r) ==
    IF r.ammonia_ppm > 20 \/ r.ph > 80 \/ r.temperature_C > 35 THEN "High"
    ELSE IF r.ammonia_ppm > 14 \/ r.ph > 75 \/ r.temperature_C > 32 THEN "Medium"
    ELSE "Low"

\* The four columns detect_anomalies reads from a window entry.
AnomalyFeatures == <<"temperature_C", "humidity_%", "ammonia_ppm", "ph">>

FeatureValue(r, feat) ==
    CASE feat = "temperature_C" -> r.temperature_C
      [] feat = "humidity_%" -> r.humidity_pct
      [] feat = "ammonia_ppm" -> r.ammonia_ppm
      [] OTHER -> r.ph

FeatureRow(r) ==
    <<FeatureValue(r, AnomalyFeatures[1]), FeatureValue(r, AnomalyFeatures[2]),
      FeatureValue(r, AnomalyFeatures[3]), FeatureValue(r, AnomalyFeatures[4])>>

\* X = pd.DataFrame(data)[features]
FeatureFrame(data) == [i \in 1..Len(data) |-> FeatureRow(data[i])]

NoDetector ==
    [state |-> "None", contamination |-> 0, n_estimators |-> 0, gen |-> 0, fit_len |-> 0]

\* IsolationForest(contamination=c, n_estimators=n, random_state=42), unfitted.
NewIsolationForest(c, n) ==
    [state |-> "unfitted", contamination |-> c, n_estimators |-> n, gen |-> 0, fit_len |-> 0]

\* The detector is configured with another contamination than the percentile
\* the threshold is taken at.
InitializeWithOtherContamination == NewIsolationForest(20, DefaultEstimators)

initialize_anomaly_detector == NewIsolationForest(DefaultContamination, DefaultEstimators)

\* detector.fit(X): the estimator is now fitted on the Len(X) rows of X; g is
\* the generation this fit starts.
Fit(det, X, g) == [det EXCEPT !.state = "fitted", !.gen = g, !.fit_len = Len(X)]

\* score_samples of an estimator fitted on `train`, for one row x.  The forest
\* itself is not computed: the score is a fixed function of the training rows
\* and the row (random_state is fixed), lower for a row that is rare among
\* the training rows (at most a tenth of them) than for a common one.
ScoreSample(train, x) ==
    IF Cardinality({i \in 1..Len(train) : train[i] = x}) * 10 <= Len(train)
    THEN -70 ELSE -45

\* The k-th smallest entry of a sequence of numbers (k from 1).
KthSmallest(s, k) ==
    CHOOSE v \in Range(s) :
        /\ Cardinality({i \in 1..Len(s) : s[i] < v}) < k
        /\ Cardinality({i \in 1..Len(s) : s[i] <= v}) >= k

\* np.percentile(scores, q) with the default linear interpolation, times 100:
\* the value at the fractional index q/100 * (n - 1) of the sorted scores.
Percentile100(scores, q) ==
    LET n == Len(scores)
        lo == ((n - 1) * q) \div 100
        frac == ((n - 1) * q) % 100
        a == KthSmallest(scores, lo + 1)
        b == IF lo + 2 <= n THEN KthSmallest(scores, lo + 2) ELSE a
    IN  100 * a + frac * (b - a)

calculate_anomaly_threshold(scores) == Percentile100(scores, ThresholdPercentile)

\* 1 / (1 + exp(-score)) in hundredths, by its tangent at 0 (0.5 + score/4):
\* a strictly increasing display value between 0 and 100 for scores in (-2, 2).
Sigmoid(score) == 50 + (score \div 4)

\* The test of FeatureFlag with 3 standard deviations instead of 2.
FeatureFlagThreeSigma(col) ==
    LET n == Len(col)
        S == SumTo(col, n)
        Q == SumTo([i \in 1..n |-> col[i] * col[i]], n)
        d == n * col[n] - S
    IN  IF d * d * (n - 1) > 9 * n * (n * Q - S * S) THEN 1 ELSE 0

\* The test of FeatureFlag with the population standard deviation (divisor n).
FeatureFlagPopulation(col) ==
    LET n == Len(col)
        S == SumTo(col, n)
        Q == SumTo([i \in 1..n |-> col[i] * col[i]], n)
        d == n * col[n] - S
    IN  IF d * d > 4 * (n * Q - S * S) THEN 1 ELSE 0

\* abs(latest[feat] - X[feat].mean()) > 2 * X[feat].std(), where pandas' std
\* is the sample standard deviation (divisor n - 1); both sides squared and
\* cleared of denominators.  col is the feature's column of the window.
FeatureFlag(col) ==
    LET n == Len(col)
        S == SumTo(col, n)
        Q == SumTo([i \in 1..n |-> col[i] * col[i]], n)
        d == n * col[n] - S
    IN  IF d * d * (n - 1) > 4 * n * (n * Q - S * S) THEN 1 ELSE 0

FeatureFlags(X) ==
    LET column(k) == [i \in 1..Len(X) |-> X[i][k]]
    IN  <<FeatureFlag(column(1)), FeatureFlag(column(2)),
          FeatureFlag(column(3)), FeatureFlag(column(4))>>

\* detect_anomalies returned None; otherwise the returned dictionary, with the
\* generations its score and its threshold came from.
NoResult ==
    [present |-> FALSE, is_anomaly |-> FALSE, anomaly_score |-> 0,
     features |-> <<>>, score_gen |-> 0, threshold_gen |-> 0]

NoThreshold == [defined |-> FALSE, value100 |-> 0, gen |-> 0]

\* detect_anomalies(data, retrain) on the session's detector, threshold and
\* generation count: what it returns (None, or the result record), whether it
\* raised, and the session state it leaves.
DetectRetrainStaleThreshold(data, retrain, det, thr, gen) ==
    LET X == FeatureFrame(data)
        refit == retrain \/ det.state = "None"
        det1 == IF refit THEN Fit(initialize_anomaly_detector, X, gen + 1) ELSE det
        thr1 == IF refit /\ ~thr.defined
                THEN [defined |-> TRUE,
                      value100 |-> calculate_anomaly_threshold(
                                      [i \in 1..Len(X) |-> ScoreSample(X, X[i])]),
                      gen |-> det1.gen]
                ELSE thr
        score == ScoreSample(SubSeq(X, 1, det1.fit_len), X[Len(X)])
    IN  IF Len(data) < MinWindow
        THEN [raised |-> FALSE, result |-> NoResult, detector |-> det,
              threshold |-> thr, generation |-> gen]
        ELSE IF det1.state # "fitted"
        THEN [raised |-> TRUE, result |-> NoResult, detector |-> det1,
              threshold |-> thr1, generation |-> gen]
        ELSE [raised |-> FALSE,
              result |-> [present |-> TRUE,
                           is_anomaly |-> 100 * score < thr1.value100,
                           anomaly_score |-> Sigmoid(score),
                           features |-> FeatureFlags(X),
                           score_gen |-> det1.gen,
                           threshold_gen |-> thr1.gen],
              detector |-> det1, threshold |-> thr1,
              generation |-> IF refit THEN gen + 1 ELSE gen]

DetectNoMinimum(data, retrain, det, thr, gen) ==
    LET X == FeatureFrame(data)
        det1 == Fit(initialize_anomaly_detector, X, gen + 1)
        thr1 == [defined |-> TRUE,
                 value100 |-> calculate_anomaly_threshold(
                                 [i \in 1..Len(X) |-> ScoreSample(X, X[i])]),
                 gen |-> det1.gen]
        score == ScoreSample(X, X[Len(X)])
    IN  IF Len(data) < 1
        THEN [raised |-> FALSE, result |-> NoResult, detector |-> det,
              threshold |-> thr, generation |-> gen]
        ELSE [raised |-> FALSE,
              result |-> [present |-> TRUE,
                           is_anomaly |-> 100 * score < thr1.value100,
                           anomaly_score |-> Sigmoid(score),
                           features |-> FeatureFlags(X),
                           score_gen |-> det1.gen,
                           threshold_gen |-> thr1.gen],
              detector |-> det1, threshold |-> thr1, generation |-> gen + 1]

\* The decision compares the display value with the threshold.
DetectBySigmoid(data, retrain, det, thr, gen) ==
    LET X == FeatureFrame(data)
        refit == retrain \/ det.state = "None"
        det1 == IF refit THEN Fit(initialize_anomaly_detector, X, gen + 1) ELSE det
        thr1 == IF refit
                THEN [defined |-> TRUE,
                      value100 |-> calculate_anomaly_threshold(
                                      [i \in 1..Len(X) |-> ScoreSample(X, X[i])]),
                      gen |-> det1.gen]
                ELSE thr
        score == ScoreSample(SubSeq(X, 1, det1.fit_len), X[Len(X)])
    IN  IF Len(data) < MinWindow
        THEN [raised |-> FALSE, result |-> NoResult, detector |-> det,
              threshold |-> thr, generation |-> gen]
        ELSE IF det1.state # "fitted"
        THEN [raised |-> TRUE, result |-> NoResult, detector |-> det1,
              threshold |-> thr1, generation |-> gen]
        ELSE [raised |-> FALSE,
              result |-> [present |-> TRUE,
                           is_anomaly |-> 100 * Sigmoid(score) < thr1.value100,
                           anomaly_score |-> Sigmoid(score),
                           features |-> FeatureFlags(X),
                           score_gen |-> det1.gen,
                           threshold_gen |-> thr1.gen],
              detector |-> det1, threshold |-> thr1,
              generation |-> IF refit THEN gen + 1 ELSE gen]

\* The decision is `score <= threshold`.
DetectNonStrict(data, retrain, det, thr, gen) ==
    LET X == FeatureFrame(data)
        refit == retrain \/ det.state = "None"
        det1 == IF refit THEN Fit(initialize_anomaly_detector, X, gen + 1) ELSE det
        thr1 == IF refit
                THEN [defined |-> TRUE,
                      value100 |-> calculate_anomaly_threshold(
                                      [i \in 1..Len(X) |-> ScoreSample(X, X[i])]),
                      gen |-> det1.gen]
                ELSE thr
        score == ScoreSample(SubSeq(X, 1, det1.fit_len), X[Len(X)])
    IN  IF Len(data) < MinWindow
        THEN [raised |-> FALSE, result |-> NoResult, detector |-> det,
              threshold |-> thr, generation |-> gen]
        ELSE IF det1.state # "fitted"
        THEN [raised |-> TRUE, result |-> NoResult, detector |-> det1,
              threshold |-> thr1, generation |-> gen]
        ELSE [raised |-> FALSE,
              result |-> [present |-> TRUE,
                           is_anomaly |-> 100 * score <= thr1.value100,
                           anomaly_score |-> Sigmoid(score),
                           features |-> FeatureFlags(X),
                           score_gen |-> det1.gen,
                           threshold_gen |-> thr1.gen],
              detector |-> det1, threshold |-> thr1,
              generation |-> IF refit THEN gen + 1 ELSE gen]

\* The detector is refitted on every call that gets past the length test.
DetectAlwaysRefit(data, retrain, det, thr, gen) ==
    LET X == FeatureFrame(data)
        refit == TRUE
        det1 == IF refit THEN Fit(initialize_anomaly_detector, X, gen + 1) ELSE det
        thr1 == IF refit
                THEN [defined |-> TRUE,
                      value100 |-> calculate_anomaly_threshold(
                                      [i \in 1..Len(X) |-> ScoreSample(X, X[i])]),
                      gen |-> det1.gen]
                ELSE thr
        score == ScoreSample(SubSeq(X, 1, det1.fit_len), X[Len(X)])
    IN  IF Len(data) < MinWindow
        THEN [raised |-> FALSE, result |-> NoResult, detector |-> det,
              threshold |-> thr, generation |-> gen]
        ELSE IF det1.state # "fitted"
        THEN [raised |-> TRUE, result |-> NoResult, detector |-> det1,
              threshold |-> thr1, generation |-> gen]
        ELSE [raised |-> FALSE,
              result |-> [present |-> TRUE,
                           is_anomaly |-> 100 * score < thr1.value100,
                           anomaly_score |-> Sigmoid(score),
                           features |-> FeatureFlags(X),
                           score_gen |-> det1.gen,
                           threshold_gen |-> thr1.gen],
              detector |-> det1, threshold |-> thr1,
              generation |-> IF refit THEN gen + 1 ELSE gen]

detect_anomalies(data, retrain, det, thr, gen) ==
    LET X == FeatureFrame(data)
        refit == retrain \/ det.state = "None"
        det1 == IF refit THEN Fit(initialize_anomaly_detector, X, gen + 1) ELSE det
        thr1 == IF refit
                THEN [defined |-> TRUE,
                      value100 |-> calculate_anomaly_threshold(
                                      [i \in 1..Len(X) |-> ScoreSample(X, X[i])]),
                      gen |-> det1.gen]
                ELSE thr
        score == ScoreSample(SubSeq(X, 1, det1.fit_len), X[Len(X)])
    IN  IF Len(data) < MinWindow
        THEN [raised |-> FALSE, result |-> NoResult, detector |-> det,
              threshold |-> thr, generation |-> gen]
        ELSE IF det1.state # "fitted"
        THEN [raised |-> TRUE, result |-> NoResult, detector |-> det1,
              threshold |-> thr1, generation |-> gen]
        ELSE [raised |-> FALSE,
              result |-> [present |-> TRUE,
                           is_anomaly |-> 100 * score < thr1.value100,
                           anomaly_score |-> Sigmoid(score),
                           features |-> FeatureFlags(X),
                           score_gen |-> det1.gen,
                           threshold_gen |-> thr1.gen],
              detector |-> det1, threshold |-> thr1,
              generation |-> IF refit THEN gen + 1 ELSE gen]

\* Values the settings sliders can be left at (contamination in percent).
SettingsContamination == {20}
SettingsEstimators == {150}

\* Readings of the window whose pH was not made with the default draws.
NoisyCount(data) ==
    Cardinality({i \in 1..Len(data) :
                    data[i].ph # generate_ph([temperature_C |-> data[i].temperature_C,
                                              humidity_pct |-> data[i].humidity_pct,
                                              ammonia_ppm |-> data[i].ammonia_ppm],
                                             DefaultDraw)})

\* The "Start Monitoring" button of the Home tab.
StartMonitoring ==
    /\ ~monitoring_active
    /\ monitoring_active' = TRUE
    /\ UNCHANGED <<df, feature_config, models_loaded, historical_data,
                   anomaly_detector, anomaly_threshold, system_status,
                   current_metrics, current_status, current_anomaly,
                   last_error, clock, generation>>
    /\ UNCHANGED <<dashVars, engVars, fnVars>>

\* The reading is appended without being counted.
UpdateSystemStatusNoCount(status, now) == [status EXCEPT !.last_update = now]

\* "Update system status" of the monitoring loop (lines 309-310), right after
\* the reading was appended to historical_data.
UpdateSystemStatus(status, now) ==
    [status EXCEPT !.last_update = now, !.total_readings = @ + 1]

\* The try block of render_home_tab failed: the except branch reports the
\* error and stops monitoring.
CycleFailed(stage) ==
    /\ last_error' = stage
    /\ monitoring_active' = FALSE

\* One script run of the Home tab while monitoring is active: the loop body
\* for the first row of the dataset, up to st.rerun(), which ends the run (so
\* every run starts the loop again at the first row).
MonitoringCycle ==
    /\ monitoring_active
    /\ clock < MaxCycles
    /\ \E d \in Draws :
        /\ d # DefaultDraw => NoisyCount(historical_data) < MaxNoisy
        /\ LET row == df[1]
               now == clock + 1
               reading == [temperature_C |-> row.temperature_C,
                           humidity_pct |-> row.humidity_pct,
                           ammonia_ppm |-> row.ammonia_ppm,
                           timestamp |-> now,
                           ph |-> generate_ph(row, d),
                           severity |-> Absent,
                           anomaly_score |-> <<>>]
               pred_data == prepare_features(feature_config, reading)
               severity == ClassifierPredict(reading)
               classified == [reading EXCEPT !.severity = severity]
               window == Append(historical_data, classified)
               counted == UpdateSystemStatus(system_status, now)
               det == detect_anomalies(window, Len(window) % RetrainEvery = 0,
                                       anomaly_detector, anomaly_threshold, generation)
               scored == [classified EXCEPT !.anomaly_score = <<det.result.anomaly_score>>]
           IN  /\ clock' = now
               /\ IF pred_data.raised
                  THEN /\ CycleFailed("prepare_features")
                       /\ current_metrics' = <<reading>>
                       /\ UNCHANGED <<historical_data, anomaly_detector, anomaly_threshold,
                                      system_status, current_status, current_anomaly,
                                      generation>>
                  ELSE IF ~models_loaded \/ ScalerRejects(pred_data.values)
                  THEN /\ CycleFailed("predict")
                       /\ current_metrics' = <<reading>>
                       /\ UNCHANGED <<historical_data, anomaly_detector, anomaly_threshold,
                                      system_status, current_status, current_anomaly,
                                      generation>>
                  ELSE IF Len(window) < MinWindow
                  THEN /\ historical_data' = window
                       /\ current_metrics' = <<classified>>
                       /\ current_status' = severity
                       /\ system_status' = counted
                       /\ last_error' = "none"
                       /\ UNCHANGED <<anomaly_detector, anomaly_threshold, current_anomaly,
                                      monitoring_active, generation>>
                  ELSE IF det.raised
                  THEN /\ CycleFailed("detect_anomalies")
                       /\ historical_data' = window
                       /\ current_metrics' = <<classified>>
                       /\ current_status' = severity
                       /\ system_status' = counted
                       /\ anomaly_detector' = det.detector
                       /\ anomaly_threshold' = det.threshold
                       /\ generation' = det.generation
                       /\ UNCHANGED current_anomaly
                  ELSE /\ anomaly_detector' = det.detector
                       /\ anomaly_threshold' = det.threshold
                       /\ generation' = det.generation
                       /\ current_status' = severity
                       /\ last_error' = "none"
                       /\ IF det.result.present
                          THEN /\ historical_data' = Append(historical_data, scored)
                               /\ current_metrics' = <<scored>>
                               /\ current_anomaly' = det.result
                               /\ system_status' =
                                     [counted EXCEPT !.anomalies_detected =
                                         IF det.result.is_anomaly THEN @ + 1 ELSE @]
                          ELSE /\ historical_data' = window
                               /\ current_metrics' = <<classified>>
                               /\ system_status' = counted
                               /\ UNCHANGED current_anomaly
                       /\ UNCHANGED monitoring_active
    /\ UNCHANGED <<df, feature_config, models_loaded>>
    /\ UNCHANGED <<dashVars, engVars, fnVars>>

\* The "Apply Settings" button of the Settings tab: a new, unfitted detector
\* replaces the session's; the stored threshold is left as it is.
ApplySettings ==
    /\ \E c \in SettingsContamination, n \in SettingsEstimators :
          anomaly_detector' = NewIsolationForest(c, n)
    /\ UNCHANGED <<df, feature_config, models_loaded, historical_data,
                   anomaly_threshold, monitoring_active, system_status,
                   current_metrics, current_status, current_anomaly,
                   last_error, clock, generation>>
    /\ UNCHANGED <<dashVars, engVars, fnVars>>

MainNext == StartMonitoring \/ MonitoringCycle \/ ApplySettings

(***************************************************************************)
(* explain/shap_explain.py                                                 *)
(***************************************************************************)
\* The column names the dashboard uses.  The degree sign is written "deg"
\* here; the explainer's source spells its temperature key with other bytes
\* (a mis-decoded degree sign), written "mojibake deg" here.
UiTemperature == "temperature (degC)"
UiColumns == {UiTemperature, "humidity (%)", "ammonia (ppm)", "pH"}

\* ui_to_internal of PoultryModelExplainer.prepare_features.
ui_to_internal ==
    [k \in {"temperature (mojibake degC)", "humidity (%)", "ammonia (ppm)", "pH"} |->
        CASE k = "temperature (mojibake degC)" -> "temperature_C"
          [] k = "humidity (%)" -> "humidity_%"
          [] k = "ammonia (ppm)" -> "ammonia_ppm"
          [] OTHER -> "ph"]

\* df.rename(columns=mapping): a column the mapping does not name keeps its name.
RenameColumn(mapping, c) == IF c \in DOMAIN mapping THEN mapping[c] ELSE c

\* PoultryModelExplainer.prepare_features on a reading given as a function
\* from column names to values: the renamed frame with the engineered
\* columns, in the configured order; raised when a column it reads is not
\* there (KeyError, then the handler's own error) or a required one is missing.
ExplainerPrepareFeatures(config, reading) ==
    LET renamed == {RenameColumn(ui_to_internal, c) : c \in DOMAIN reading}
        value(n) == reading[CHOOSE c \in DOMAIN reading : RenameColumn(ui_to_internal, c) = n]
        required == config.feature_names \o config.engineered_features
        engineered == {"temp_humidity_interaction", "ammonia_temp_ratio"}
    IN  IF ~({"temperature_C", "humidity_%", "ammonia_ppm"} \subseteq renamed)
        THEN [raised |-> TRUE, columns |-> <<>>, values |-> <<>>]
        ELSE IF ~(Range(required) \subseteq (renamed \cup engineered))
        THEN [raised |-> TRUE, columns |-> <<>>, values |-> <<>>]
        ELSE [raised |-> FALSE,
              columns |-> required,
              values |-> [i \in 1..Len(required) |->
                  CASE required[i] = "temp_humidity_interaction" ->
                          Fraction(value("temperature_C") * value("humidity_%"), 100)
                    [] required[i] = "ammonia_temp_ratio" ->
                          PandasDivide(value("ammonia_ppm"), value("temperature_C"))
                    [] required[i] = "ph" -> Fraction(value("ph"), 10)
                    [] OTHER -> Fraction(value(required[i]), 1)]]

\* classifier.classes_: the labels the classifier was trained with, sorted.
Classes == <<"High", "Low", "Medium">>

\* Vectors predict_proba can return for one row, in tenths, one entry per
\* class (some with equal entries).
ProbaChoices ==
    {<<10, 0, 0>>, <<0, 10, 0>>, <<2, 5, 3>>, <<5, 5, 0>>, <<3, 3, 4>>, <<0, 5, 5>>}

\* The index of the smallest entry instead of the largest.
ArgMin(p) ==
    CHOOSE i \in 1..Len(p) :
        /\ \A j \in 1..Len(p) : p[j] >= p[i]
        /\ \A j \in 1..(i - 1) : p[j] > p[i]

\* np.argmax: the first index of a largest entry.
ArgMax(p) ==
    CHOOSE i \in 1..Len(p) :
        /\ \A j \in 1..Len(p) : p[j] <= p[i]
        /\ \A j \in 1..(i - 1) : p[j] < p[i]

\* The severity explain_prediction reports for a vector of predict_proba
\* (lines 72-74) and its probabilities dictionary (lines 105-108).
ExplainedSeverity(severity_proba) ==
    [prediction |-> Classes[ArgMax(severity_proba)],
     probabilities |-> [c \in Range(Classes) |->
                          severity_proba[CHOOSE i \in 1..Len(Classes) : Classes[i] = c]]]

\* sample_data of the module's own test run (lines 122-127): a reading under
\* the keys ui_to_internal names.
SampleData(r) ==
    [c \in DOMAIN ui_to_internal |->
        CASE ui_to_internal[c] = "temperature_C" -> r.temperature
          [] ui_to_internal[c] = "humidity_%" -> r.humidity
          [] ui_to_internal[c] = "ammonia_ppm" -> r.ammonia
          [] OTHER -> r.pH]

NotExplained ==
    [called |-> FALSE, raised |-> FALSE, keys |-> {}, prediction |-> "None",
     probabilities |-> [c \in Range(Classes) |-> 0], vector |-> <<>>,
     classified |-> <<>>, shap_input |-> <<>>]

\* The returned dictionary also carries the per-feature importances.
ExplainWithImportance(config, reading) ==
    LET X == ExplainerPrepareFeatures(config, reading)
    IN  IF X.raised \/ ScalerRejects(X.values)
        THEN [raised |-> TRUE, keys |-> {}]
        ELSE [raised |-> FALSE,
              keys |-> {"prediction", "probabilities", "is_anomaly", "anomaly_score",
                        "per_feature_importance"}]

\* PoultryModelExplainer.explain_prediction: every error is re-raised;
\* otherwise the returned dictionary, by its keys.
explain_prediction(config, reading) ==
    LET X == ExplainerPrepareFeatures(config, reading)
    IN  IF X.raised \/ ScalerRejects(X.values)
        THEN [raised |-> TRUE, keys |-> {}]
        ELSE [raised |-> FALSE,
              keys |-> {"prediction", "probabilities", "is_anomaly", "anomaly_score"}]

(***************************************************************************)
(* dashboard/app.py                                                        *)
(***************************************************************************)
\* Bounds of the dashboard model.
\* Threads one session may start.
MaxThreads == 2
\* Readings the producers generate in one session.
MaxReadings == 3

Threads == 1..MaxThreads

\* Values generate_mock_sensor_data can return (normal draws), pH in tenths.
MockTemperatures == {0, 30}
MockAmmonia == {12, 22}
MockReadings ==
    {[temperature |-> t, humidity |-> 60, ammonia |-> a, pH |-> 68] :
        t \in MockTemperatures, a \in MockAmmonia}

\* a / b on Python floats: ZeroDivisionError for a zero divisor.
PythonDivide(a, b) ==
    IF b = 0 THEN [kind |-> "raised", num |-> 0, den |-> 0] ELSE Fraction(a, b)

\* update_history up to new_row (lines 186-212): the row it would append and
\* the feature array it builds for the scaler, or raised when a step of it
\* raises (the except branch reports it and returns).
UpdateHistoryRow(reading, now, loaded) ==
    LET ratio == PythonDivide(reading.ammonia, reading.temperature)
        interaction == Fraction(reading.temperature * reading.humidity, 100)
        features == <<Fraction(reading.temperature, 1), Fraction(reading.humidity, 1),
                      Fraction(reading.ammonia, 1), Fraction(reading.pH, 10),
                      ratio, interaction>>
        severity == IF loaded
                    THEN ClassifierPredict([temperature_C |-> reading.temperature,
                                            ammonia_ppm |-> reading.ammonia,
                                            ph |-> reading.pH])
                    ELSE "Unknown"
        row == [temperature |-> reading.temperature, humidity |-> reading.humidity,
                ammonia |-> reading.ammonia, pH |-> reading.pH,
                timestamp |-> now,
                ammonia_temp_ratio |-> ratio,
                temp_humidity_interaction |-> interaction,
                severity |-> severity]
    IN  IF ratio.kind = "raised" THEN [raised |-> TRUE, row |-> <<>>, features |-> <<>>]
        ELSE IF loaded /\ ScalerRejects(features)
        THEN [raised |-> TRUE, row |-> <<>>, features |-> <<>>]
        ELSE [raised |-> FALSE, row |-> <<row>>, features |-> features]

Alive(t) == thread_pc[t] \in {"check", "update", "write", "sleep"}

\* start_streaming (lines 226-233).
start_streaming ==
    IF streaming_thread = 0
    THEN \E t \in Threads :
            /\ thread_pc[t] = "unborn"
            /\ \A u \in Threads : thread_pc[u] = "unborn" => t <= u
            /\ stop_streaming' = "False"
            /\ streaming_thread' = t
            /\ thread_pc' = [thread_pc EXCEPT ![t] = "check"]
            /\ UNCHANGED stop_requested
    ELSE UNCHANGED <<stop_streaming, streaming_thread, thread_pc, stop_requested>>

\* A script run of the dashboard, from the top to the sidebar's
\* start_streaming() or to the join of stop_streaming() (lines 250-266).  The
\* module-level PoultryModelExplainer() raises when an artifact is missing,
\* which ends the run before main() is called.
RunWithAutoUpdate ==
    /\ ui_pc = "idle"
    /\ artifacts_present
    /\ start_streaming
    /\ ui_pc' = "render"
    /\ UNCHANGED <<artifacts_present, history, last_update, thread_row,
                   thread_snapshot, explanation, dash_clock>>
    /\ UNCHANGED <<mainVars, engVars, fnVars>>

RunWithoutAutoUpdate ==
    /\ ui_pc = "idle"
    /\ artifacts_present
    /\ IF streaming_thread # 0
       THEN /\ stop_streaming' = "True"
            /\ stop_requested' = stop_requested \cup {streaming_thread}
            /\ ui_pc' = "join"
       ELSE /\ ui_pc' = "render"
            /\ UNCHANGED <<stop_streaming, stop_requested>>
    /\ UNCHANGED <<artifacts_present, history, last_update, streaming_thread,
                   thread_pc, thread_row, thread_snapshot, explanation, dash_clock>>
    /\ UNCHANGED <<mainVars, engVars, fnVars>>

\* stop_streaming after its join(timeout=1) returned (lines 239-240): the
\* thread has ended, or it is in its sleep (1 to 10 seconds) and the join
\* timed out.
JoinReturns ==
    /\ ui_pc = "join"
    /\ thread_pc[streaming_thread] \in {"dead", "sleep"}
    /\ streaming_thread' = 0
    /\ ui_pc' = "render"
    /\ UNCHANGED <<artifacts_present, history, last_update, stop_streaming,
                   thread_pc, thread_row, thread_snapshot, stop_requested,
                   explanation, dash_clock>>
    /\ UNCHANGED <<mainVars, engVars, fnVars>>

\* feature_data of main() (lines 406-411), from the latest row.
FeatureData(latest) ==
    [c \in UiColumns |->
        CASE c = UiTemperature -> latest.temperature
          [] c = "humidity (%)" -> latest.humidity
          [] c = "ammonia (ppm)" -> latest.ammonia
          [] OTHER -> latest.pH]

\* The try/except around the explanation (lines 402-453): what the panel
\* shows, or "raised" if the error leaves main().
ExplainPropagates(latest) ==
    IF explain_prediction(SavedFeatureConfig, FeatureData(latest)).raised
    THEN "raised" ELSE "shown"

ExplainPanel(latest) ==
    IF explain_prediction(SavedFeatureConfig, FeatureData(latest)).raised
    THEN "skipped" ELSE "shown"

\* The main content of the run (lines 287-469).
Render ==
    /\ ui_pc = "render"
    /\ LET panel == IF Len(history) > 0 THEN ExplainPanel(history[Len(history)])
                    ELSE "none"
       IN  IF panel = "raised"
           THEN /\ ui_pc' = "crashed"
                /\ UNCHANGED explanation
           ELSE /\ ui_pc' = "idle"
                /\ explanation' = panel
    /\ UNCHANGED <<artifacts_present, history, last_update, stop_streaming,
                   streaming_thread, thread_pc, thread_row, thread_snapshot,
                   stop_requested, dash_clock>>
    /\ UNCHANGED <<mainVars, engVars, fnVars>>

\* stream_data's loop test (line 244).
LoopCheck(t) ==
    /\ thread_pc[t] = "check"
    /\ thread_pc' = [thread_pc EXCEPT ![t] =
                        IF stop_streaming = "True" THEN "dead" ELSE "update"]
    /\ UNCHANGED <<artifacts_present, history, last_update, stop_streaming,
                   streaming_thread, thread_row, thread_snapshot, stop_requested,
                   ui_pc, explanation, dash_clock>>
    /\ UNCHANGED <<mainVars, engVars, fnVars>>

\* generate_reading and update_history up to the read of the history for
\* pd.concat (lines 245-213): a reading that raises is reported and dropped.
UpdateHistoryRead(t) ==
    /\ thread_pc[t] = "update"
    /\ dash_clock < MaxReadings
    /\ \E reading \in MockReadings :
          LET now == dash_clock + 1
              made == UpdateHistoryRow(reading, now, artifacts_present)
          IN  /\ dash_clock' = now
              /\ IF made.raised
                 THEN /\ thread_pc' = [thread_pc EXCEPT ![t] = "sleep"]
                      /\ UNCHANGED <<thread_row, thread_snapshot>>
                 ELSE /\ thread_pc' = [thread_pc EXCEPT ![t] = "write"]
                      /\ thread_row' = [thread_row EXCEPT ![t] = made.row]
                      /\ thread_snapshot' = [thread_snapshot EXCEPT ![t] = history]
    /\ UNCHANGED <<artifacts_present, history, last_update, stop_streaming,
                   streaming_thread, stop_requested, ui_pc, explanation>>
    /\ UNCHANGED <<mainVars, engVars, fnVars>>

\* The assignment of the concatenated frame to st.session_state.history and
\* of last_update (lines 213-214), then the start of the sleep.
UpdateHistoryWrite(t) ==
    /\ thread_pc[t] = "write"
    /\ history' = thread_snapshot[t] \o thread_row[t]
    /\ last_update' = thread_row[t][1].timestamp
    /\ thread_pc' = [thread_pc EXCEPT ![t] = "sleep"]
    /\ thread_row' = [thread_row EXCEPT ![t] = <<>>]
    /\ thread_snapshot' = [thread_snapshot EXCEPT ![t] = <<>>]
    /\ UNCHANGED <<artifacts_present, stop_streaming, streaming_thread,
                   stop_requested, ui_pc, explanation, dash_clock>>
    /\ UNCHANGED <<mainVars, engVars, fnVars>>

\* time.sleep(update_interval) returns (line 248).
Wake(t) ==
    /\ thread_pc[t] = "sleep"
    /\ thread_pc' = [thread_pc EXCEPT ![t] = "check"]
    /\ UNCHANGED <<artifacts_present, history, last_update, stop_streaming,
                   streaming_thread, thread_row, thread_snapshot, stop_requested,
                   ui_pc, explanation, dash_clock>>
    /\ UNCHANGED <<mainVars, engVars, fnVars>>

DashNext ==
    \/ RunWithAutoUpdate
    \/ RunWithoutAutoUpdate
    \/ JoinReturns
    \/ Render
    \/ \E t \in Threads : LoopCheck(t)
    \/ \E t \in Threads : UpdateHistoryRead(t)
    \/ \E t \in Threads : UpdateHistoryWrite(t)
    \/ \E t \in Threads : Wake(t)

(***************************************************************************)
(* The three feature-engineering paths on one reading.                     *)
(***************************************************************************)
EngineeringPaths == {"update_history", "prepare_features", "explainer"}

\* Readings handed to the engineering functions (pH in tenths).
EngineerInputs ==
    {[temperature |-> t, humidity |-> h, ammonia |-> a, pH |-> p] :
        t \in {0, 25, 30}, h \in {0, 60}, a \in {0, 12, 40}, p \in {68, 82}}

NotApplied ==
    [applied |-> FALSE, raised |-> FALSE, ratio |-> <<>>, interaction |-> <<>>,
     vector |-> <<>>, classified |-> <<>>]

EngineerRaised ==
    [applied |-> TRUE, raised |-> TRUE, ratio |-> <<>>, interaction |-> <<>>,
     vector |-> <<>>, classified |-> <<>>]

\* update_history (dashboard/app.py 190-207) with the models loaded: the two
\* engineered values, the array handed to scaler.transform and what
\* severity_model.predict is then called with.
EngineerUpdateHistory(r) ==
    LET made == UpdateHistoryRow(r, 0, TRUE)
    IN  IF made.raised THEN EngineerRaised
        ELSE [applied |-> TRUE, raised |-> FALSE,
              ratio |-> <<made.row[1].ammonia_temp_ratio>>,
              interaction |-> <<made.row[1].temp_humidity_interaction>>,
              vector |-> made.features,
              classified |-> ClassifierInput(made.features)]

\* prepare_features of main.py (149-164) on the reading as a one-row frame;
\* the frame it returns is what scaler.transform is given (line 298), and
\* model.predict is called with the result (line 299).
EngineerPrepareFeatures(r) ==
    LET X == prepare_features(SavedFeatureConfig,
                              [temperature_C |-> r.temperature, humidity_pct |-> r.humidity,
                               ammonia_ppm |-> r.ammonia, ph |-> r.pH])
    IN  IF X.raised THEN EngineerRaised
        ELSE [applied |-> TRUE, raised |-> FALSE,
              ratio |-> <<X.values[6]>>, interaction |-> <<X.values[5]>>,
              vector |-> X.values,
              classified |-> ClassifierInput(X.values)]

\* prepare_features of the explainer (shap_explain.py 29-61) on the reading
\* under the dashboard's column names, and what predict_proba would be called
\* with for its frame (lines 69-72).
EngineerExplainer(r) ==
    LET X == ExplainerPrepareFeatures(SavedFeatureConfig, FeatureData(r))
    IN  IF X.raised THEN EngineerRaised
        ELSE [applied |-> TRUE, raised |-> FALSE,
              ratio |-> <<X.values[6]>>, interaction |-> <<X.values[5]>>,
              vector |-> X.values,
              classified |-> ClassifierInput(X.values)]

ApplyUpdateHistory ==
    /\ ~eng_result["update_history"].applied
    /\ eng_result' = [eng_result EXCEPT !["update_history"] = EngineerUpdateHistory(eng_reading)]
    /\ UNCHANGED <<eng_reading, eng_explained, mainVars, dashVars, fnVars>>

ApplyPrepareFeatures ==
    /\ ~eng_result["prepare_features"].applied
    /\ eng_result' = [eng_result EXCEPT !["prepare_features"] = EngineerPrepareFeatures(eng_reading)]
    /\ UNCHANGED <<eng_reading, eng_explained, mainVars, dashVars, fnVars>>

ApplyExplainer ==
    /\ ~eng_result["explainer"].applied
    /\ eng_result' = [eng_result EXCEPT !["explainer"] = EngineerExplainer(eng_reading)]
    /\ UNCHANGED <<eng_reading, eng_explained, mainVars, dashVars, fnVars>>

\* explain_prediction on the reading, given under the dashboard's column
\* names or under the explainer's own, with any vector of ProbaChoices from
\* the classifier.  predict_proba is called with the scaled frame (lines
\* 69-72); the SHAP tree explainer is handed the frame itself (line 81).
ApplyExplainPrediction ==
    /\ ~eng_explained.called
    /\ \E source \in {"dashboard", "sample"}, severity_proba \in ProbaChoices :
          LET input == IF source = "dashboard" THEN FeatureData(eng_reading)
                       ELSE SampleData(eng_reading)
              out == explain_prediction(SavedFeatureConfig, input)
              X == ExplainerPrepareFeatures(SavedFeatureConfig, input)
              severity == ExplainedSeverity(severity_proba)
          IN  eng_explained' =
                IF out.raised
                THEN [NotExplained EXCEPT !.called = TRUE, !.raised = TRUE]
                ELSE [called |-> TRUE, raised |-> FALSE, keys |-> out.keys,
                      prediction |-> severity.prediction,
                      probabilities |-> severity.probabilities,
                      vector |-> X.values,
                      classified |-> ClassifierInput(X.values),
                      shap_input |-> <<X.values>>]
    /\ UNCHANGED <<eng_reading, eng_result, mainVars, dashVars, fnVars>>

EngNext ==
    ApplyUpdateHistory \/ ApplyPrepareFeatures \/ ApplyExplainer \/ ApplyExplainPrediction

(***************************************************************************)
(* forecast/forecast_date.py                                               *)
(***************************************************************************)
\* PoultryForecaster.__init__(sequence_length=24, prediction_length=24).
sequence_length == 24
prediction_length == 24

\* The number of columns the forecasting model is built for: the columns of
\* the training data, df[feature_config["feature_names"]].values.
ForecastFeatures == Len(SavedFeatureConfig.feature_names)

NoForecast == [called |-> FALSE, raised |-> FALSE, rows |-> 0, predictions |-> 0]

ForecastRaised(rows) == [called |-> TRUE, raised |-> TRUE, rows |-> rows, predictions |-> 0]

\* The forecaster accepts a sequence of any length (as reshape(1, -1, n) would).
PredictFutureAnyLength(rows, cols) ==
    IF cols < ForecastFeatures \/ rows = 0
    THEN ForecastRaised(rows)
    ELSE [called |-> TRUE, raised |-> FALSE, rows |-> rows, predictions |-> prediction_length]

\* predict_future(sequence) for an array of `rows` rows and `cols` columns.
\* It does not test the length.  The scaling loop reads the first
\* ForecastFeatures columns (IndexError when there are fewer);
\* reshape(1, sequence_length, -1) raises unless the number of elements is a
\* positive multiple of sequence_length; model.predict raises unless the last
\* dimension the reshape produced is the one the model was built for.
predict_future(rows, cols) ==
    LET size == rows * cols
        last == size \div sequence_length
    IN  IF cols < ForecastFeatures THEN ForecastRaised(rows)
        ELSE IF size = 0 \/ size % sequence_length # 0 THEN ForecastRaised(rows)
        ELSE IF last # ForecastFeatures THEN ForecastRaised(rows)
        ELSE [called |-> TRUE, raised |-> FALSE, rows |-> rows,
              predictions |-> prediction_length]

(***************************************************************************)
(* detect_anomalies and predict_future on windows of readings.             *)
(***************************************************************************)
\* Calls of detect_anomalies explored on one window.
MaxCalls == 3

\* The readings of a window: a base reading, and readings that differ from it
\* in ammonia or in pH (tenths).
BaseReading == [temperature_C |-> 30, humidity_pct |-> 60, ammonia_ppm |-> 12, ph |-> 70]
DetectReadings ==
    {BaseReading, [BaseReading EXCEPT !.ammonia_ppm = 40],
     [BaseReading EXCEPT !.ph = 82], [BaseReading EXCEPT !.ph = 81]}

\* Lengths of the homogeneous window the calls start from.
InitialLengths == {8, 21}

\* One more reading is appended to the window and detect_anomalies is called
\* on it, with either value of retrain.
DetectCall ==
    /\ fn_calls < MaxCalls
    /\ \E r \in DetectReadings, retrain \in BOOLEAN :
          LET window == Append(fn_data, r)
              out == detect_anomalies(window, retrain, fn_detector, fn_threshold,
                                      fn_generation)
          IN  /\ fn_data' = window
              /\ fn_calls' = fn_calls + 1
              /\ fn_detector' = out.detector
              /\ fn_threshold' = out.threshold
              /\ fn_generation' = out.generation
              /\ fn_result' = out.result
    /\ UNCHANGED fc_forecast
    /\ UNCHANGED <<mainVars, dashVars, engVars>>

\* predict_future is called on the window's feature columns.
ForecastCall ==
    /\ fc_forecast' = predict_future(Len(fn_data), Len(SavedFeatureConfig.feature_names))
    /\ UNCHANGED <<fn_data, fn_calls, fn_detector, fn_threshold, fn_generation, fn_result>>
    /\ UNCHANGED <<mainVars, dashVars, engVars>>

FnNext == DetectCall \/ ForecastCall

(***************************************************************************)
(* Specifications.  Each program runs in a session of its own; the state   *)
(* of the others stays as it starts.                                       *)
(***************************************************************************)
\* main.py's session as it starts (lines 19-39), with the cached dataset and
\* the artifacts the module loaded or failed to load.
Init ==
    /\ df \in DatasetChoices
    /\ feature_config \in {NoFeatureConfig, SavedFeatureConfig}
    /\ models_loaded \in BOOLEAN
    /\ historical_data = <<>>
    /\ anomaly_detector = NoDetector
    /\ anomaly_threshold = NoThreshold
    /\ monitoring_active = FALSE
    /\ system_status = [last_update |-> 0, anomalies_detected |-> 0, total_readings |-> 0]
    /\ current_metrics = <<>>
    /\ current_status = None
    /\ current_anomaly = NoResult
    /\ last_error = "none"
    /\ clock = 0
    /\ generation = 0
    /\ artifacts_present = TRUE
    /\ history = <<>>
    /\ last_update = 0
    /\ stop_streaming = "absent"
    /\ streaming_thread = 0
    /\ thread_pc = [t \in Threads |-> "unborn"]
    /\ thread_row = [t \in Threads |-> <<>>]
    /\ thread_snapshot = [t \in Threads |-> <<>>]
    /\ stop_requested = {}
    /\ ui_pc = "idle"
    /\ explanation = "none"
    /\ dash_clock = 0
    /\ eng_reading = [temperature |-> 30, humidity |-> 60, ammonia |-> 12, pH |-> 68]
    /\ eng_result = [p \in EngineeringPaths |-> NotApplied]
    /\ eng_explained = NotExplained
    /\ fn_data = <<>>
    /\ fn_calls = 0
    /\ fn_detector = NoDetector
    /\ fn_threshold = NoThreshold
    /\ fn_generation = 0
    /\ fn_result = NoResult
    /\ fc_forecast = NoForecast

\* The dashboard's session before its first script run (lines 117-125), with
\* the artifacts under model/ present or not.
InitDash ==
    /\ artifacts_present \in BOOLEAN
    /\ history = <<>>
    /\ last_update = 0
    /\ stop_streaming = "absent"
    /\ streaming_thread = 0
    /\ thread_pc = [t \in Threads |-> "unborn"]
    /\ thread_row = [t \in Threads |-> <<>>]
    /\ thread_snapshot = [t \in Threads |-> <<>>]
    /\ stop_requested = {}
    /\ ui_pc = "idle"
    /\ explanation = "none"
    /\ dash_clock = 0
    /\ df = <<SampleRowA, SampleRowB>>
    /\ feature_config = SavedFeatureConfig
    /\ models_loaded = TRUE
    /\ historical_data = <<>>
    /\ anomaly_detector = NoDetector
    /\ anomaly_threshold = NoThreshold
    /\ monitoring_active = FALSE
    /\ system_status = [last_update |-> 0, anomalies_detected |-> 0, total_readings |-> 0]
    /\ current_metrics = <<>>
    /\ current_status = None
    /\ current_anomaly = NoResult
    /\ last_error = "none"
    /\ clock = 0
    /\ generation = 0
    /\ eng_reading = [temperature |-> 30, humidity |-> 60, ammonia |-> 12, pH |-> 68]
    /\ eng_result = [p \in EngineeringPaths |-> NotApplied]
    /\ eng_explained = NotExplained
    /\ fn_data = <<>>
    /\ fn_calls = 0
    /\ fn_detector = NoDetector
    /\ fn_threshold = NoThreshold
    /\ fn_generation = 0
    /\ fn_result = NoResult
    /\ fc_forecast = NoForecast

\* A reading of EngineerInputs, before any engineering path is applied to it.
InitEngineer ==
    /\ eng_reading \in EngineerInputs
    /\ eng_result = [p \in EngineeringPaths |-> NotApplied]
    /\ eng_explained = NotExplained
    /\ df = <<SampleRowA, SampleRowB>>
    /\ feature_config = SavedFeatureConfig
    /\ models_loaded = TRUE
    /\ historical_data = <<>>
    /\ anomaly_detector = NoDetector
    /\ anomaly_threshold = NoThreshold
    /\ monitoring_active = FALSE
    /\ system_status = [last_update |-> 0, anomalies_detected |-> 0, total_readings |-> 0]
    /\ current_metrics = <<>>
    /\ current_status = None
    /\ current_anomaly = NoResult
    /\ last_error = "none"
    /\ clock = 0
    /\ generation = 0
    /\ artifacts_present = TRUE
    /\ history = <<>>
    /\ last_update = 0
    /\ stop_streaming = "absent"
    /\ streaming_thread = 0
    /\ thread_pc = [t \in Threads |-> "unborn"]
    /\ thread_row = [t \in Threads |-> <<>>]
    /\ thread_snapshot = [t \in Threads |-> <<>>]
    /\ stop_requested = {}
    /\ ui_pc = "idle"
    /\ explanation = "none"
    /\ dash_clock = 0
    /\ fn_data = <<>>
    /\ fn_calls = 0
    /\ fn_detector = NoDetector
    /\ fn_threshold = NoThreshold
    /\ fn_generation = 0
    /\ fn_result = NoResult
    /\ fc_forecast = NoForecast

\* A homogeneous window and a session without detector, before any call.
InitDetect ==
    /\ fn_data \in {[i \in 1..n |-> BaseReading] : n \in InitialLengths}
    /\ fn_calls = 0
    /\ fn_detector = NoDetector
    /\ fn_threshold = NoThreshold
    /\ fn_generation = 0
    /\ fn_result = NoResult
    /\ fc_forecast = NoForecast
    /\ eng_reading = [temperature |-> 30, humidity |-> 60, ammonia |-> 12, pH |-> 68]
    /\ eng_result = [p \in EngineeringPaths |-> NotApplied]
    /\ eng_explained = NotExplained
    /\ df = <<SampleRowA, SampleRowB>>
    /\ feature_config = SavedFeatureConfig
    /\ models_loaded = TRUE
    /\ historical_data = <<>>
    /\ anomaly_detector = NoDetector
    /\ anomaly_threshold = NoThreshold
    /\ monitoring_active = FALSE
    /\ system_status = [last_update |-> 0, anomalies_detected |-> 0, total_readings |-> 0]
    /\ current_metrics = <<>>
    /\ current_status = None
    /\ current_anomaly = NoResult
    /\ last_error = "none"
    /\ clock = 0
    /\ generation = 0
    /\ artifacts_present = TRUE
    /\ history = <<>>
    /\ last_update = 0
    /\ stop_streaming = "absent"
    /\ streaming_thread = 0
    /\ thread_pc = [t \in Threads |-> "unborn"]
    /\ thread_row = [t \in Threads |-> <<>>]
    /\ thread_snapshot = [t \in Threads |-> <<>>]
    /\ stop_requested = {}
    /\ ui_pc = "idle"
    /\ explanation = "none"
    /\ dash_clock = 0

\* main.py's session.
Spec == Init /\ [][MainNext]_vars

\* The dashboard's session.
SpecDash == InitDash /\ [][DashNext]_vars

\* The feature-engineering functions on every input of EngineerInputs.
SpecEngineer == InitEngineer /\ [][EngNext]_vars

\* detect_anomalies and predict_future on growing windows of DetectReadings.
SpecDetect == InitDetect /\ [][FnNext]_vars

(***************************************************************************)
(* Claims C1 to C10.                                                       *)
(***************************************************************************)

\* C1: every anomaly decision detect_anomalies produces compares a score and
\* a threshold of the same fitted model generation, and a fitted detector in
\* the session always has the threshold of its own generation beside it,
\* whatever monitoring cycles, retrains and Apply Settings came before.
C1_SameGeneration ==
    /\ current_anomaly.present =>
          current_anomaly.score_gen = current_anomaly.threshold_gen
    /\ anomaly_detector.state = "fitted" =>
          /\ anomaly_threshold.defined
          /\ anomaly_threshold.gen = anomaly_detector.gen

\* A decision of the second generation, in a session where an Apply Settings
\* made an earlier cycle fail (a reading past the 10th without a score).
C1_Witness ==
    /\ current_anomaly.present
    /\ current_anomaly.score_gen = 2
    /\ current_anomaly.threshold_gen = 2
    /\ \E i \in 11..Len(historical_data) : historical_data[i].anomaly_score = <<>>

\* C2: on a window of fewer than 10 entries detect_anomalies returns None
\* (no score, no is_anomaly, nothing raised, the session left alone), and
\* none of the first 9 readings of a session carries an anomaly result.
C2_NoResultBelowTen ==
    /\ \A i \in 1..Len(historical_data) : i < 10 => historical_data[i].anomaly_score = <<>>
    /\ Len(historical_data) < 10 => ~current_anomaly.present
    /\ \A k \in 0..Len(historical_data), retrain \in BOOLEAN :
          k < 10 =>
            LET out == detect_anomalies(SubSeq(historical_data, 1, k), retrain,
                                        anomaly_detector, anomaly_threshold, generation)
            IN  /\ ~out.result.present
                /\ ~out.raised
                /\ out.detector = anomaly_detector
                /\ out.threshold = anomaly_threshold
                /\ out.generation = generation

\* The 9th reading of a session has been appended and there is no result.
C2_Witness ==
    /\ Len(historical_data) = 9
    /\ system_status.total_readings = 9
    /\ ~current_anomaly.present

\* C3 (as claimed): a cycle that takes the window to a length of at least 10,
\* with no fitted model in the session or with a length that is a multiple of
\* 10, refits on the whole window, recomputes the threshold, and scores the
\* latest reading with the model just fitted.
C3_RefitWhenNoFittedModel ==
    [][(/\ Len(historical_data') = Len(historical_data) + 1
        /\ Len(historical_data') >= 10
        /\ (anomaly_detector.state # "fitted" \/ Len(historical_data') % 10 = 0))
       => (/\ anomaly_detector'.state = "fitted"
           /\ anomaly_detector'.fit_len = Len(historical_data')
           /\ anomaly_detector'.gen = generation + 1
           /\ anomaly_threshold'.defined
           /\ anomaly_threshold'.gen = anomaly_detector'.gen
           /\ current_anomaly'.present
           /\ current_anomaly'.score_gen = anomaly_detector'.gen)]_vars

\* C4 (as claimed): at no moment are two producer threads in the body of
\* their loop (generating and appending readings).
C4_SingleProducer ==
    Cardinality({t \in Threads : thread_pc[t] \in {"update", "write"}}) <= 1

\* C5 (as claimed): a producer that was the streaming thread when
\* stop_streaming raised the signal leaves its loop at its next loop test.
C5_StopObservedAtNextCheck ==
    [][\A t \in Threads :
          (t \in stop_requested /\ thread_pc[t] = "check" /\ thread_pc'[t] # "check")
             => thread_pc'[t] = "dead"]_vars

\* C6 (as claimed): the dashboard's history is append-only: no step shortens
\* it or changes an entry it already holds.
C6_AppendOnly ==
    [][/\ Len(history') >= Len(history)
       /\ \A i \in 1..Len(history) : history'[i] = history[i]]_vars

\* C7 (as claimed): with a model artifact missing, a monitoring cycle still
\* appends its reading and leaves monitoring active.
C7_MissingArtifactKeepsMonitoring ==
    [][(/\ monitoring_active
        /\ clock' = clock + 1
        /\ ~(models_loaded /\ feature_config.loaded))
       => (/\ monitoring_active'
           /\ Len(historical_data') = Len(historical_data) + 1)]_vars

\* C8 (as claimed): every engineering path fails with an error on a reading
\* whose temperature is 0.
C8_ZeroTemperatureRaises ==
    \A p \in EngineeringPaths :
        (eng_reading.temperature = 0 /\ eng_result[p].applied) => eng_result[p].raised

\* C9 (as claimed): a cycle whose feature preparation raises leaves the
\* history as it was and monitoring active.
C9_FeatureErrorKeepsMonitoring ==
    [][(/\ monitoring_active
        /\ clock' = clock + 1
        /\ last_error' = "prepare_features")
       => (/\ monitoring_active'
           /\ historical_data' = historical_data)]_vars

\* C10: when the explanation of the latest row raises, the run's main
\* content still completes with the panel skipped, and leaves the history,
\* the stop signal, the streaming thread and every thread where they were.
C10_ExplainFailureContained ==
    [][(/\ ui_pc = "render"
        /\ ui_pc' # "render"
        /\ Len(history) > 0
        /\ explain_prediction(SavedFeatureConfig, FeatureData(history[Len(history)])).raised)
       => (/\ ui_pc' = "idle"
           /\ explanation' = "skipped"
           /\ history' = history
           /\ last_update' = last_update
           /\ stop_streaming' = stop_streaming
           /\ streaming_thread' = streaming_thread
           /\ thread_pc' = thread_pc)]_vars

\* A run ended with the explanation skipped while the producer is alive and
\* the history has grown past the row the panel was skipped for.
C10_Witness ==
    /\ ui_pc = "idle"
    /\ explanation = "skipped"
    /\ Len(history) >= 2
    /\ streaming_thread # 0
    /\ Alive(streaming_thread)
(***************************************************************************)
(* Claims C11 to C20.                                                      *)
(***************************************************************************)

\* C11 (as claimed): on every classification path, the vector handed to the
\* scaler holds the configured features in the order of training: the four
\* base features, then temp_humidity_interaction, then ammonia_temp_ratio.
C11_ConfiguredOrder ==
    LET trained == TrainingVector([temperature_C |-> eng_reading.temperature,
                                   humidity_pct |-> eng_reading.humidity,
                                   ammonia_ppm |-> eng_reading.ammonia,
                                   ph |-> eng_reading.pH])
    IN  /\ \A p \in EngineeringPaths :
              (eng_result[p].applied /\ ~eng_result[p].raised)
                 => eng_result[p].vector = trained
        /\ (eng_explained.called /\ ~eng_explained.raised)
              => eng_explained.vector = trained

\* C12: in every cycle that scores its reading, is_anomaly is true exactly
\* when the raw score of the latest reading (under the session's fitted
\* detector) is strictly below the session's threshold, and anomaly_score is
\* the sigmoid of that raw score, stored for display.
C12_DecisionByRawScore ==
    [][(/\ clock' = clock + 1
        /\ last_error' = "none"
        /\ Len(historical_data') >= MinWindow)
       => LET X == FeatureFrame(historical_data')
              raw == ScoreSample(SubSeq(X, 1, anomaly_detector'.fit_len), X[Len(X)])
          IN  /\ current_anomaly'.present
              /\ current_anomaly'.is_anomaly = (100 * raw < anomaly_threshold'.value100)
              /\ current_anomaly'.anomaly_score = Sigmoid(raw)
              /\ historical_data'[Len(X)].anomaly_score = <<Sigmoid(raw)>>]_vars

\* A reading has been flagged: its raw score was below the threshold.
C12_Witness ==
    /\ current_anomaly.present
    /\ current_anomaly.is_anomaly
    /\ system_status.anomalies_detected >= 1
    /\ last_error = "none"

\* C13: whenever the session holds a fitted detector, the stored threshold is
\* the percentile, at the detector's configured contamination (in percent),
\* of the in-sample scores of that detector on the rows it was fitted on.
C13_ThresholdAtContamination ==
    anomaly_detector.state = "fitted" =>
        LET X == FeatureFrame(SubSeq(historical_data, 1, anomaly_detector.fit_len))
            train_scores == [i \in 1..Len(X) |-> ScoreSample(X, X[i])]
        IN  /\ anomaly_threshold.defined
            /\ anomaly_threshold.value100 =
                   Percentile100(train_scores, anomaly_detector.contamination)

\* A fitted detector whose threshold lies between two different in-sample
\* scores (the window it was fitted on holds a rare reading).
C13_Witness ==
    /\ anomaly_detector.state = "fitted"
    /\ anomaly_detector.contamination = DefaultContamination
    /\ anomaly_threshold.value100 % 100 # 0

\* C14: when detect_anomalies first fits on a window of 10 identical readings,
\* the 10th reading is not flagged anomalous and none of its per-feature flags
\* is set.
C14_HomogeneousNotFlagged ==
    (/\ Len(fn_data) = MinWindow
     /\ \A i \in 1..Len(fn_data) : fn_data[i] = fn_data[1]
     /\ fn_generation = 1
     /\ fn_result.present)
    => (/\ ~fn_result.is_anomaly
        /\ \A k \in 1..Len(AnomalyFeatures) : fn_result.features[k] = 0)

\* The first fit has just been made on 10 identical readings.
C14_Witness ==
    /\ Len(fn_data) = MinWindow
    /\ \A i \in 1..Len(fn_data) : fn_data[i] = BaseReading
    /\ fn_generation = 1
    /\ fn_detector.fit_len = MinWindow
    /\ fn_result.present
    /\ fn_result.score_gen = 1

\* C15: when the 10th reading of a window whose first nine readings are
\* identical differs from them in ammonia alone (40 against 12) and the
\* detector is fitted on that window, the reading's ammonia flag is set and
\* is_anomaly is true.
C15_AmmoniaOutlierFlagged ==
    (/\ Len(fn_data) = MinWindow
     /\ \A i \in 1..(MinWindow - 1) : fn_data[i] = fn_data[1]
     /\ fn_data[1].ammonia_ppm = 12
     /\ fn_data[MinWindow] = [fn_data[1] EXCEPT !.ammonia_ppm = 40]
     /\ fn_detector.fit_len = MinWindow
     /\ fn_result.present)
    => (/\ fn_result.features[3] = 1
        /\ fn_result.is_anomaly)

\* The detector has just been fitted on nine base readings and one with
\* ammonia 40 in 10th position.
C15_Witness ==
    /\ Len(fn_data) = MinWindow
    /\ \A i \in 1..(MinWindow - 1) : fn_data[i] = BaseReading
    /\ fn_data[MinWindow].ammonia_ppm = 40
    /\ fn_detector.state = "fitted"
    /\ fn_detector.fit_len = MinWindow
    /\ fn_result.present
    /\ fn_result.is_anomaly

\* C16 (as claimed): for every window of length >= 10 and every feature, the
\* flag of the latest reading is |value - mean| > 2 * stddev with the
\* population standard deviation (divisor n) of the feature over the whole
\* current window.
C16_PopulationFlags ==
    fn_result.present =>
        \A k \in 1..Len(AnomalyFeatures) :
            LET X == FeatureFrame(fn_data)
                n == Len(X)
                total == SumTo([i \in 1..n |-> X[i][k]], n)
                \* n * (value - mean), and n^2 * the sum of squared deviations
                dev(i) == n * X[i][k] - total
                squares == SumTo([i \in 1..n |-> dev(i) * dev(i)], n)
            IN  (fn_result.features[k] = 1) <=> (dev(n) * dev(n) * n > 4 * squares)

\* C16 (amended): the same with the sample standard deviation (divisor n - 1),
\* which is what pandas' std() computes, over the whole current window.
C16_SampleFlags ==
    fn_result.present =>
        \A k \in 1..Len(AnomalyFeatures) :
            LET X == FeatureFrame(fn_data)
                n == Len(X)
                total == SumTo([i \in 1..n |-> X[i][k]], n)
                dev(i) == n * X[i][k] - total
                squares == SumTo([i \in 1..n |-> dev(i) * dev(i)], n)
            IN  /\ n >= MinWindow
                /\ (fn_result.features[k] = 1) <=>
                       (dev(n) * dev(n) * (n - 1) > 4 * squares)

\* A window of 11 readings (pH nine times 7.0, then 8.2, then 8.1) on which
\* the two standard deviations decide differently: the latest pH is more than
\* two population deviations and less than two sample deviations from the mean.
C16_Witness ==
    /\ Len(fn_data) = 11
    /\ \A i \in 1..9 : fn_data[i] = BaseReading
    /\ fn_data[10] = [BaseReading EXCEPT !.ph = 82]
    /\ fn_data[11] = [BaseReading EXCEPT !.ph = 81]
    /\ fn_result.present
    /\ fn_result.features[4] = 0

C18_SequenceLengthForBoth ==
    /\ fn_result.present => Len(fn_data) >= sequence_length
    /\ (fc_forecast.called /\ ~fc_forecast.raised) => fc_forecast.rows >= sequence_length

\* C18 (amended): no anomaly result is produced from a window of fewer than
\* 10 readings, and no forecast from a window of fewer than sequence_length
\* readings (predict_future raises on it).
C18_OwnMinimums ==
    /\ fn_result.present => Len(fn_data) >= MinWindow
    /\ (fc_forecast.called /\ ~fc_forecast.raised)
          => (/\ fc_forecast.rows >= sequence_length
              /\ fc_forecast.predictions = prediction_length)
    /\ (fc_forecast.called /\ fc_forecast.rows < sequence_length) => fc_forecast.raised

\* An anomaly result on a window shorter than sequence_length (and at least
\* 10 long), and a forecast refused on that window.
C18_Witness ==
    /\ fn_result.present
    /\ Len(fn_data) >= MinWindow
    /\ Len(fn_data) < sequence_length
    /\ fc_forecast.called
    /\ fc_forecast.raised
    /\ fc_forecast.rows = Len(fn_data)

\* C19: for every reading explain_prediction classifies, the label is one of
\* the classifier's classes, the probabilities have an entry for every class
\* and no other, and no class has a higher probability than the label.
C19_LabelHasMaximumProbability ==
    (eng_explained.called /\ ~eng_explained.raised)
       => (/\ eng_explained.prediction \in Range(Classes)
           /\ DOMAIN eng_explained.probabilities = Range(Classes)
           /\ \A c \in Range(Classes) :
                 eng_explained.probabilities[c]
                    <= eng_explained.probabilities[eng_explained.prediction])

\* A reading classified from a vector in which two classes share the highest
\* probability.
C19_Witness ==
    /\ eng_explained.called
    /\ ~eng_explained.raised
    /\ eng_explained.prediction = "High"
    /\ eng_explained.probabilities["Low"] = eng_explained.probabilities["High"]
    /\ eng_explained.probabilities["Medium"] < eng_explained.probabilities["High"]

\* C20 (as claimed): the three engineering paths agree on a reading: if one
\* yields engineered values, every other path applied to the same reading
\* yields the same ammonia_temp_ratio and temp_humidity_interaction.
C20_PathsAgree ==
    \A p, q \in EngineeringPaths :
        (eng_result[p].applied /\ eng_result[q].applied)
           => (/\ eng_result[p].raised = eng_result[q].raised
               /\ eng_result[p].ratio = eng_result[q].ratio
               /\ eng_result[p].interaction = eng_result[q].interaction)


(***************************************************************************)
(* Claims C21 to C26.                                                      *)
(***************************************************************************)

\* C21: on every classification path (update_history of the dashboard, the
\* monitoring cycle of main.py, explain_prediction), whenever the classifier
\* is called it is called with the scaler's transform of the feature vector,
\* never with the vector itself; and the classifier is left uncalled only
\* when the path raised or the transform rejected the vector.
C21_ScaledBeforeClassified ==
    /\ \A p \in EngineeringPaths :
          /\ eng_result[p].classified # <<>> =>
                /\ eng_result[p].classified[1] = StandardScalerTransform(eng_result[p].vector)
                /\ eng_result[p].classified[1] # eng_result[p].vector
          /\ (eng_result[p].applied /\ eng_result[p].classified = <<>>) =>
                (eng_result[p].raised \/ ScalerRejects(eng_result[p].vector))
    /\ eng_explained.classified # <<>> =>
          /\ eng_explained.classified[1] = StandardScalerTransform(eng_explained.vector)
          /\ eng_explained.classified[1] # eng_explained.vector
    /\ (eng_explained.called /\ ~eng_explained.raised) => eng_explained.classified # <<>>

\* The classifier has been called on all three paths for one reading.
C21_Witness ==
    /\ eng_result["update_history"].classified # <<>>
    /\ eng_result["prepare_features"].classified # <<>>
    /\ eng_explained.called
    /\ eng_explained.classified # <<>>

\* C22 (as claimed): without an error, the monitoring loop makes its i-th
\* reading from the i-th row of the dataset, one reading per row, and once
\* the last row has been processed the session has completed (monitoring is
\* no longer active).
C22_EveryRowThenCompleted ==
    /\ \A i \in 1..Len(historical_data) :
          /\ i <= Len(df)
          /\ historical_data[i].temperature_C = df[i].temperature_C
          /\ historical_data[i].humidity_pct = df[i].humidity_pct
          /\ historical_data[i].ammonia_ppm = df[i].ammonia_ppm
    /\ (last_error = "none" /\ Len(historical_data) = Len(df)) => ~monitoring_active

\* C23 (as claimed): the detector Apply Settings installed (unfitted, with the
\* chosen contamination and n_estimators) keeps its configuration through
\* every later monitoring cycle: the model a cycle fits or scores with is
\* configured with the applied values.
C23_AppliedSettingsUsed ==
    [][(/\ clock' = clock + 1
        /\ anomaly_detector.state = "unfitted")
       => (/\ anomaly_detector'.contamination = anomaly_detector.contamination
           /\ anomaly_detector'.n_estimators = anomaly_detector.n_estimators)]_vars

\* C24 (as claimed): in every monitoring cycle that calls detect_anomalies on
\* a window of at least 10 readings, the detector the latest reading is scored
\* with (the session's detector after the optional refit) is fitted and a
\* threshold is stored, whatever cycles and Apply Settings came before.
C24_ScoringOnFittedDetector ==
    [][(/\ clock' = clock + 1
        /\ Len(historical_data') = Len(historical_data) + 1
        /\ Len(historical_data') >= MinWindow)
       => (/\ anomaly_detector'.state = "fitted"
           /\ anomaly_threshold'.defined
           /\ last_error' # "detect_anomalies")]_vars

\* C25: in every monitoring cycle, a detect_anomalies call on a window whose
\* length is not a multiple of 10 with a fitted detector in the session, and
\* every cycle whose window is shorter than 10, leaves the detector and the
\* threshold as they were; the generation count advances (by one) only in a
\* cycle that takes the window to a length that is a multiple of 10.
C25_RefitOnlyAtMultiplesOfTen ==
    [][(clock' = clock + 1)
       => (/\ (anomaly_detector.state = "fitted" /\ Len(historical_data') % RetrainEvery # 0)
                 => (/\ anomaly_detector' = anomaly_detector
                     /\ anomaly_threshold' = anomaly_threshold)
           /\ Len(historical_data') < MinWindow
                 => (/\ anomaly_detector' = anomaly_detector
                     /\ anomaly_threshold' = anomaly_threshold)
           /\ generation' # generation
                 => (/\ generation' = generation + 1
                     /\ Len(historical_data') = Len(historical_data) + 1
                     /\ Len(historical_data') % RetrainEvery = 0
                     /\ anomaly_detector'.fit_len = Len(historical_data')))]_vars

\* The 21st reading has been scored without a refit by the detector of the
\* second generation, fitted at length 20.
C25_Witness ==
    /\ Len(historical_data) = 21
    /\ generation = 2
    /\ anomaly_detector.state = "fitted"
    /\ anomaly_detector.fit_len = 20
    /\ current_anomaly.present
    /\ current_anomaly.score_gen = 2
    /\ historical_data[21].anomaly_score # <<>>

\* C26: after every monitoring cycle, completed or ended in an error,
\* total_readings is the number of entries of historical_data, and
\* anomalies_detected is 0 while total_readings < 10 and at most
\* total_readings - 9 afterwards.
C26_CountsMatchHistory ==
    /\ system_status.total_readings = Len(historical_data)
    /\ system_status.total_readings < MinWindow => system_status.anomalies_detected = 0
    /\ system_status.total_readings >= MinWindow =>
          system_status.anomalies_detected <= system_status.total_readings - (MinWindow - 1)

\* A cycle has ended in an error of detect_anomalies, after its reading was
\* appended and counted, in a session that had flagged a reading before.
C26_Witness ==
    /\ last_error = "detect_anomalies"
    /\ ~monitoring_active
    /\ system_status.anomalies_detected >= 1
    /\ system_status.total_readings >= MinWindow + 1
    /\ Len(historical_data) = system_status.total_readings

=============================================================================
